---- MODULE Spec2Model ----
(***************************************************************************)
(* Rank-resolution pipeline of AmazonRanker: the retry controller          *)
(* (checkAsinRank and executeWithRetry), the per-attempt page scan         *)
(* (executeSearch) and the per-page rank calculator (calculateRanks).      *)
(***************************************************************************)
EXTENDS Integers, Sequences, FiniteSets, TLC

(***************************************************************************)
(* Bounds of the model.                                                    *)
(***************************************************************************)
MaxLen == 2
MaxPagesBound == 2
MaxRetriesBound == 2

(***************************************************************************)
(* Program constants.                                                      *)
(***************************************************************************)
maxBackoffMs == 8000
JitterRange == 500

(***************************************************************************)
(* Nullable values (number | null, optional fields).                       *)
(***************************************************************************)
Null == <<>>
Some(x) == <<x>>
IsNull(v) == v = <<>>
Val(v) == v[1]

Min(a, b) == IF a <= b THEN a ELSE b

RECURSIVE Pow2(_)
Pow2(n) == IF n <= 0 THEN 1 ELSE 2 * Pow2(n - 1)

(***************************************************************************)
(* Error codes and thrown values.  A thrown value is either an Error whose *)
(* lower-cased message contains some of the keyword groups classifyError   *)
(* looks for, or a value that is no Error at all.                          *)
(***************************************************************************)
ErrorCode ==
  {"captcha_detected", "timeout", "parsing_failed", "asin_not_found",
   "unknown_error", "invalid_input", "browser_launch_failed"}

Fault(isErr, ws) == [isError |-> isErr, words |-> ws]

\* throw new Error('CAPTCHA detected')
CaptchaError == Fault(TRUE, {"captcha"})

\* throw new Error('Page failed to load properly')
LoadError == Fault(TRUE, {})

\* Values thrown by the browser library (launch, navigation, evaluation, close).
Faults ==
  { Fault(TRUE, {"captcha"}), Fault(TRUE, {"timeout"}), Fault(TRUE, {"parse"}),
    Fault(TRUE, {"browser"}), Fault(TRUE, {"not found"}), Fault(TRUE, {}),
    Fault(TRUE, {"timeout", "browser"}), Fault(FALSE, {}) }

classifyError(error) ==
  IF ~error.isError THEN "unknown_error"
  ELSE IF "captcha" \in error.words THEN "captcha_detected"
  ELSE IF "timeout" \in error.words THEN "timeout"
  ELSE IF "parse" \in error.words THEN "parsing_failed"
  ELSE IF "browser" \in error.words THEN "browser_launch_failed"
  ELSE IF "not found" \in error.words THEN "asin_not_found"
  ELSE "unknown_error"

retryableErrorsWithLaunch ==
  {"captcha_detected", "timeout", "parsing_failed", "browser_launch_failed"}

retryableErrors == {"captcha_detected", "timeout", "parsing_failed"}

isRetryableError(errorCode) == errorCode \in retryableErrors

getErrorMessage(code) ==
  CASE code = "captcha_detected" -> "Amazon CAPTCHA detected. The request was blocked."
    [] code = "timeout" -> "Request timed out. Amazon may be slow or unreachable."
    [] code = "parsing_failed" -> "Failed to parse search results. Amazon layout may have changed."
    [] code = "asin_not_found" -> "ASIN not found in search results within scanned pages."
    [] code = "browser_launch_failed" -> "Failed to launch browser. Server resource issue."
    [] code = "invalid_input" -> "Invalid input provided. Check ASIN and keyword format."
    [] OTHER -> "An unexpected error occurred."

\* A response is a record whose optional fields data and error are Null when
\* the object literal does not have them.
createErrorResponseWithData(code) ==
  [success |-> FALSE,
   data |-> Some([organicRank |-> Null, sponsoredRank |-> Null, pageFound |-> Null,
                  positionOnPage |-> Null, totalResultsScanned |-> 0, scannedPages |-> 0]),
   error |-> Some([code |-> code, message |-> getErrorMessage(code)])]

createErrorResponse(code) ==
  [success |-> FALSE,
   data |-> Null,
   error |-> Some([code |-> code, message |-> getErrorMessage(code)])]

(***************************************************************************)
(* Page contents: the merged list of extracted results of one page.        *)
(***************************************************************************)
targetAsin == "B0TARGET01"
Asins == {targetAsin, "B0OTHER002"}

ListOf(f) ==
  [i \in DOMAIN f |-> [asin |-> f[i][1], isSponsored |-> f[i][2], position |-> i]]

PageLists ==
  UNION { { ListOf(f) : f \in [1..n -> Asins \X BOOLEAN] } : n \in 0..MaxLen }

(***************************************************************************)
(* calculateRanks: one pass over the merged list, never stopping early.    *)
(***************************************************************************)
RanksInit ==
  [organicRankCounter |-> 0, sponsoredRankCounter |-> 0,
   foundOrganicRank |-> Null, foundSponsoredRank |-> Null,
   firstFoundPosition |-> Null]

RanksStepLastWins(acc, result, target) ==
  LET isTargetAsin == result.asin = target IN
  IF result.isSponsored
  THEN LET c == acc.sponsoredRankCounter + 1
       IN [acc EXCEPT !.sponsoredRankCounter = c,
                      !.foundSponsoredRank = IF isTargetAsin THEN Some(c) ELSE @,
                      !.firstFoundPosition =
                         IF isTargetAsin /\ IsNull(@) THEN Some(result.position) ELSE @]
  ELSE LET c == acc.organicRankCounter + 1
       IN [acc EXCEPT !.organicRankCounter = c,
                      !.foundOrganicRank = IF isTargetAsin THEN Some(c) ELSE @,
                      !.firstFoundPosition =
                         IF isTargetAsin /\ IsNull(@) THEN Some(result.position) ELSE @]

RanksStep(acc, result, target) ==
  LET isTargetAsin == result.asin = target IN
  IF result.isSponsored
  THEN LET c == acc.sponsoredRankCounter + 1
           latch == isTargetAsin /\ IsNull(acc.foundSponsoredRank)
       IN [acc EXCEPT !.sponsoredRankCounter = c,
                      !.foundSponsoredRank = IF latch THEN Some(c) ELSE @,
                      !.firstFoundPosition =
                         IF latch /\ IsNull(@) THEN Some(result.position) ELSE @]
  ELSE LET c == acc.organicRankCounter + 1
           latch == isTargetAsin /\ IsNull(acc.foundOrganicRank)
       IN [acc EXCEPT !.organicRankCounter = c,
                      !.foundOrganicRank = IF latch THEN Some(c) ELSE @,
                      !.firstFoundPosition =
                         IF latch /\ IsNull(@) THEN Some(result.position) ELSE @]

RECURSIVE RanksScanStopAtMatch(_, _, _, _)
RanksScanStopAtMatch(acc, results, i, target) ==
  IF i > Len(results) THEN acc
  ELSE IF results[i].asin = target THEN RanksStep(acc, results[i], target)
  ELSE RanksScanStopAtMatch(RanksStep(acc, results[i], target), results, i + 1, target)

RECURSIVE RanksScan(_, _, _, _)
RanksScan(acc, results, i, target) ==
  IF i > Len(results) THEN acc
  ELSE RanksScan(RanksStep(acc, results[i], target), results, i + 1, target)

calculateRanksOrganicOnly(results, target) ==
  LET acc == RanksScan(RanksInit, results, 1, target)
  IN [found |-> ~IsNull(acc.foundOrganicRank),
      organicRank |-> acc.foundOrganicRank,
      sponsoredRank |-> acc.foundSponsoredRank,
      position |-> acc.firstFoundPosition,
      totalResults |-> Len(results),
      totalOrganicCount |-> acc.organicRankCounter,
      totalSponsoredCount |-> acc.sponsoredRankCounter]

calculateRanks(results, target) ==
  LET acc == RanksScan(RanksInit, results, 1, target)
      found == ~(IsNull(acc.foundOrganicRank) /\ IsNull(acc.foundSponsoredRank))
  IN [found |-> found,
      organicRank |-> IF found THEN acc.foundOrganicRank ELSE Null,
      sponsoredRank |-> IF found THEN acc.foundSponsoredRank ELSE Null,
      position |-> IF found THEN acc.firstFoundPosition ELSE Null,
      totalResults |-> Len(results),
      totalOrganicCount |-> acc.organicRankCounter,
      totalSponsoredCount |-> acc.sponsoredRankCounter]

(***************************************************************************)
(* Sponsored classification of one result element.  An element is what the *)
(* extraction reads of it: its data-asin attribute, the outcome of the     *)
(* four detectors on its outer HTML, and whether the direct DOM check of   *)
(* the fallback finds a sponsored indicator.                               *)
(***************************************************************************)
SPONSORED_THRESHOLD == 2

Element(asin, text, badge, aria, ad, direct) ==
  [asin |-> asin, text |-> text, badge |-> badge, aria |-> aria, ad |-> ad,
   direct |-> direct]

BoolCount(b) == IF b THEN 1 ELSE 0

classifySponsored(el) ==
  [hasSponsoredText |-> el.text,
   hasBadgeContainer |-> el.badge,
   hasAriaLabel |-> el.aria,
   hasAdMetadata |-> el.ad,
   signalCount |-> BoolCount(el.text) + BoolCount(el.badge) + BoolCount(el.aria)
                     + BoolCount(el.ad)]

isSponsored(signals) == signals.signalCount >= SPONSORED_THRESHOLD

\* The length of a data-asin attribute value; "" stands for a missing one.
AsinLength(asin) == IF asin = "" THEN 0 ELSE IF asin = "B0SHORT" THEN 7 ELSE 10

\* extractSingleResult(element, position): Null when the element is skipped.
extractSingleResult(el, position) ==
  IF el.asin = "" \/ AsinLength(el.asin) /= 10 THEN Null
  ELSE LET sponsoredSignals == classifySponsored(el)
           sponsored == isSponsored(sponsoredSignals)
       IN IF ~sponsored /\ el.direct
          THEN Some([asin |-> el.asin, position |-> position, isSponsored |-> TRUE,
                     sponsoredSignals |->
                       [sponsoredSignals EXCEPT !.signalCount = 1,
                                                !.hasSponsoredText = TRUE]])
          ELSE Some([asin |-> el.asin, position |-> position,
                     isSponsored |-> sponsored,
                     sponsoredSignals |-> sponsoredSignals])

\* What mergeResults and calculateRanks read of an extracted record.
ListEntry(r) == [asin |-> r.asin, isSponsored |-> r.isSponsored, position |-> r.position]

(***************************************************************************)
(* mergeResults: the first pass, then the entries of the second pass whose *)
(* key is not yet in the key set.                                          *)
(***************************************************************************)
\* `${r.asin}-${r.isSponsored}`
getKey(r) == <<r.asin, r.isSponsored>>

KeysOf(list) == { getKey(list[i]) : i \in DOMAIN list }

RECURSIVE MergeLoop(_, _, _, _)
MergeLoop(merged, keySet, secondary, i) ==
  IF i > Len(secondary) THEN merged
  ELSE LET result == secondary[i]
           key == getKey(result)
       IN IF key \notin keySet
          THEN MergeLoop(Append(merged, result), keySet \cup {key}, secondary, i + 1)
          ELSE MergeLoop(merged, keySet, secondary, i + 1)

RECURSIVE MergeLoopByAsin(_, _, _, _)
MergeLoopByAsin(merged, asinSet, secondary, i) ==
  IF i > Len(secondary) THEN merged
  ELSE LET result == secondary[i]
       IN IF result.asin \notin asinSet
          THEN MergeLoopByAsin(Append(merged, result), asinSet \cup {result.asin},
                               secondary, i + 1)
          ELSE MergeLoopByAsin(merged, asinSet, secondary, i + 1)

mergeResultsByAsin(primary, secondary) ==
  MergeLoopByAsin(primary, { primary[i].asin : i \in DOMAIN primary }, secondary, 1)

mergeResultsSecondaryFirst(primary, secondary) ==
  MergeLoop(secondary, KeysOf(secondary), primary, 1)

mergeResultsEmptyKeySet(primary, secondary) ==
  MergeLoop(primary, {}, secondary, 1)

mergeResults(primary, secondary) ==
  MergeLoop(primary, KeysOf(primary), secondary, 1)

(***************************************************************************)
(* Boundary validation.  The markup of a result element is what the        *)
(* validator's tests read of it.                                           *)
(***************************************************************************)
BOUNDARY_FIRST == 3
BOUNDARY_LAST == 3

isInBoundaryZone(position, totalResults) ==
  IF position <= BOUNDARY_FIRST THEN TRUE
  ELSE IF totalResults > 0 /\ position > totalResults - BOUNDARY_LAST THEN TRUE
  ELSE FALSE

\* short: html.length < 500; includesAsin: html.includes(targetAsin);
\* asinEmbedded: verifyAsinEmbedding; hasLink: /<a[^>]*href/i;
\* hasContentWord: /price|rating|title/i; structural: verifyStructuralIntegrity;
\* content: verifyContentPresence; injection: one of the injectionPatterns.
Htmls ==
  { h \in [short : BOOLEAN, includesAsin : BOOLEAN, asinEmbedded : BOOLEAN,
           hasLink : BOOLEAN, hasContentWord : BOOLEAN, structural : BOOLEAN,
           content : BOOLEAN, injection : BOOLEAN] :
      h.asinEmbedded => h.includesAsin }

verifyNotInjectionAnyLength(html) ==
  IF html.injection THEN FALSE
  ELSE TRUE

verifyNotInjection(html) ==
  IF html.injection THEN FALSE
  ELSE IF html.short THEN FALSE
  ELSE TRUE

validateBoundaryResult(html) ==
  LET validationChecks ==
        [asinMatch |-> html.asinEmbedded,
         structuralIntegrity |-> html.structural,
         contentPresence |-> html.content,
         notInjection |-> verifyNotInjection(html)]
      passedChecks ==
        BoolCount(validationChecks.asinMatch)
          + BoolCount(validationChecks.structuralIntegrity)
          + BoolCount(validationChecks.contentPresence)
          + BoolCount(validationChecks.notInjection)
  IN [isValid |-> passedChecks >= 3, passedChecks |-> passedChecks,
      validationChecks |-> validationChecks]

quickValidateBoundaryResult(html) ==
  IF ~html.includesAsin THEN FALSE
  ELSE IF ~html.hasLink THEN FALSE
  ELSE IF ~html.hasContentWord THEN FALSE
  ELSE TRUE

\* let boundaryValidated = true; if (... isInBoundaryZone(...)) { ... }
boundaryValidation(position, totalResults, html) ==
  IF isInBoundaryZone(position, totalResults)
  THEN IF quickValidateBoundaryResult(html) THEN TRUE
       ELSE validateBoundaryResult(html).isValid
  ELSE TRUE

\* The ParseResult of calculateRanks with its boundaryValidated flag, html
\* being the markup of the first found record.
WithBoundaryValidated(pr, html) ==
  [found |-> pr.found,
   organicRank |-> pr.organicRank,
   sponsoredRank |-> pr.sponsoredRank,
   position |-> pr.position,
   totalResults |-> pr.totalResults,
   totalOrganicCount |-> pr.totalOrganicCount,
   totalSponsoredCount |-> pr.totalSponsoredCount,
   boundaryValidated |->
     IF pr.found THEN boundaryValidation(Val(pr.position), pr.totalResults, html)
     ELSE FALSE]

\* One markup for each verdict the validation gives inside the boundary
\* zone: the found record's markup matters to the page result through that
\* verdict only.
HtmlRepresentatives ==
  LET verdict(h) == boundaryValidation(1, 1, h)
  IN { CHOOSE h \in Htmls : verdict(h) = v : v \in { verdict(g) : g \in Htmls } }

(***************************************************************************)
(* State.  mode selects the retry controller that runs: the checkAsinRank  *)
(* loop of the scraper, or the generic executeWithRetry.                   *)
(***************************************************************************)
VARIABLES
  request,                  \* the RankCheckRequest, as far as validateInput reads it
  mode,                     \* "checkAsinRank" or "executeWithRetry"
  maxPages,                 \* config.maxPages
  maxRetries,               \* config.maxRetries
  baseBackoffMs,            \* config.baseBackoffMs
  pc,                       \* where the running function is suspended
  attempt,                  \* loop variable of checkAsinRank
  browser,                  \* the browser variable: "null" or "Browser"
  lastError,                \* lastError of checkAsinRank
  response,                 \* Null until checkAsinRank returns, then Some(response)
  pageNum,                  \* loop variable of executeSearch
  cumulativeOrganicRank,
  cumulativeSponsoredRank,
  totalScanned,
  state,                    \* RetryState of executeWithRetry
  retryReturn,              \* Null until executeWithRetry returns
  deadlinePassed,           \* the caller's wall-clock limit has elapsed
  \* history, read by the properties only
  pagesSeen,                \* parse results of the current attempt, in page order
  lastFault,                \* Null, or Some(the value most recently caught)
  searchExit,               \* how the current attempt was left: "none" while it runs
  searchResult,             \* the response executeSearch returned in this attempt
  priorCounted,             \* a failed attempt had counted results before it threw
  launches,                 \* calls of launchBrowser (of fn, in executeWithRetry)
  unclosed,                 \* browsers launched on which close() was never called
  curClosed,                \* close() was called on the browser now held
  lastDelay,                \* Null, or Some([index, ms]) of the last sleep between attempts
  slept                     \* total of the delays slept between attempts

\* parseSearchResults of one page
VARIABLES
  parsePc,                  \* "idle", "phase1", "phase2", "merge" or "done"
  elementIndex,             \* elements of the running extraction pass handled so far
  results,                  \* results of the first extractResults pass
  additionalResults,        \* results of the second extractResults pass
  extracted,                \* Null, or what extractSingleResult returned last
  merged,                   \* mergeResults(results, additionalResults)
  parseReturn               \* Null until calculateRanks returns, then Some(result)

parserVars == <<parsePc, elementIndex, results, additionalResults, extracted, merged,
                parseReturn>>

\* the boundary validator called on one found record
VARIABLES
  zonePosition,             \* position of the found record
  zoneTotalResults,         \* length of the list it was found in
  elementHtml,              \* markup of the found record
  zoneResult                \* Null, or Some([inZone, boundaryValidated])

boundaryVars == <<zonePosition, zoneTotalResults, elementHtml, zoneResult>>

\* the dashboard's bulk queue
VARIABLES
  processingRef,            \* processingRef.current
  isProcessing,             \* the isProcessing state: Stop Processing is shown
  jobs,                     \* the jobs state: job id -> [status, retryCount]
  handlers,                 \* per call of handleBulkUpload: where it is suspended
  stopAfter                 \* per call: Stop Processing was clicked after it began

bulkVars == <<processingRef, isProcessing, jobs, handlers, stopAfter>>

cfgVars == <<request, mode, maxPages, maxRetries, baseBackoffMs>>
scanVars == <<pageNum, cumulativeOrganicRank, cumulativeSponsoredRank, totalScanned,
              pagesSeen, searchExit, searchResult>>
retryVars == <<state, retryReturn>>
browserVars == <<browser, unclosed, curClosed>>

vars == <<request, mode, maxPages, maxRetries, baseBackoffMs, pc, attempt, browser, lastError,
          response, pageNum, cumulativeOrganicRank, cumulativeSponsoredRank,
          totalScanned, state, retryReturn, deadlinePassed, pagesSeen, lastFault,
          searchExit, searchResult, priorCounted, launches, unclosed, curClosed,
          lastDelay, slept, parsePc, elementIndex, results, additionalResults,
          extracted, merged, parseReturn, zonePosition, zoneTotalResults,
          elementHtml, zoneResult, processingRef, isProcessing, jobs, handlers,
          stopAfter>>

BaseBackoffChoices == {1000, 5000}
JitterChoices == {0, 250, JitterRange - 1}

\* KEYWORD_CONSTRAINTS
minLength == 2
maxLength == 200

\* A keyword is the sequence of its characters: a blank or a letter.
Spaces(n) == [i \in 1..n |-> " "]
Letters(n) == [i \in 1..n |-> "a"]

RECURSIVE trimStart(_)
trimStart(s) == IF s /= <<>> /\ Head(s) = " " THEN trimStart(Tail(s)) ELSE s

RECURSIVE trimEnd(_)
trimEnd(s) ==
  IF s /= <<>> /\ s[Len(s)] = " " THEN trimEnd(SubSeq(s, 1, Len(s) - 1)) ELSE s

\* String.prototype.trim
trim(s) == trimEnd(trimStart(s))

\* A request: asin is "" when missing, asinMatches tells whether
\* ASIN_PATTERN matches request.asin.toUpperCase(), keyword is
\* request.keyword and keywordDangerous whether one of the
\* dangerousPatterns matches the keyword.
Request(asin, matches, keyword, dangerous) ==
  [asin |-> asin, asinMatches |-> matches, keyword |-> keyword,
   keywordDangerous |-> dangerous]

ValidRequest == Request(targetAsin, TRUE, Letters(minLength), FALSE)

Requests ==
  { ValidRequest,
    Request("", FALSE, Letters(minLength), FALSE),
    Request("B0-TOOSHORT", FALSE, Letters(minLength), FALSE),
    Request(targetAsin, TRUE, Letters(0), FALSE),
    Request(targetAsin, TRUE, Letters(minLength - 1), FALSE),
    Request(targetAsin, TRUE, Letters(maxLength + 1), FALSE),
    Request(targetAsin, TRUE, Letters(maxLength), TRUE),
    Request(targetAsin, TRUE, Spaces(1) \o Letters(minLength) \o Spaces(1), FALSE),
    Request(targetAsin, TRUE, Letters(minLength - 1) \o Spaces(1), FALSE),
    Request(targetAsin, TRUE, Spaces(minLength + 1), FALSE),
    Request(targetAsin, TRUE, Spaces(1) \o Letters(maxLength), FALSE) }

validateInputAsinOnly(req) ==
  IF req.asin = "" \/ ~req.asinMatches THEN Some("invalid_input") ELSE Null

validateInput(req) ==
  IF req.asin = "" \/ ~req.asinMatches THEN Some("invalid_input")
  ELSE IF Len(req.keyword) = 0 \/ Len(req.keyword) < minLength
          \/ Len(req.keyword) > maxLength
  THEN Some("invalid_input")
  ELSE IF req.keywordDangerous THEN Some("invalid_input")
  ELSE Null

\* const normalizedKeyword = request.keyword.trim(), passed to executeSearch
normalizedKeyword == trim(request.keyword)

createRetryState ==
  [attempt |-> 0, lastError |-> Null, totalDelayMs |-> 0, shouldRetry |-> FALSE]

\* No page is being parsed.
ParserIdle ==
  /\ parsePc = "idle"
  /\ elementIndex = 0
  /\ results = <<>>
  /\ additionalResults = <<>>
  /\ extracted = Null
  /\ merged = <<>>
  /\ parseReturn = Null

\* The boundary validator is not being called.
BoundaryIdle ==
  /\ zonePosition = 0
  /\ zoneTotalResults = 0
  /\ elementHtml = Null
  /\ zoneResult = Null

\* The dashboard is not in use.
BulkIdle ==
  /\ processingRef = FALSE
  /\ isProcessing = FALSE
  /\ jobs = <<>>
  /\ handlers = <<>>
  /\ stopAfter = <<>>

Init ==
  /\ ParserIdle
  /\ BoundaryIdle
  /\ BulkIdle
  /\ mode \in {"checkAsinRank", "executeWithRetry"}
  /\ request \in Requests
  /\ mode = "executeWithRetry" => request = ValidRequest
  /\ request /= ValidRequest => (maxPages = 1 /\ maxRetries = 0 /\ baseBackoffMs = 1000)
  /\ maxPages \in 1..MaxPagesBound
  /\ maxRetries \in 0..MaxRetriesBound
  /\ baseBackoffMs \in BaseBackoffChoices
  /\ mode = "executeWithRetry" => maxPages = 1
  /\ pc = IF mode = "checkAsinRank" THEN "validate" ELSE "fn"
  /\ attempt = 0
  /\ browser = "null"
  /\ lastError = "unknown_error"
  /\ response = Null
  /\ pageNum = 0
  /\ cumulativeOrganicRank = 0
  /\ cumulativeSponsoredRank = 0
  /\ totalScanned = 0
  /\ state = createRetryState
  /\ retryReturn = Null
  /\ deadlinePassed = FALSE
  /\ pagesSeen = <<>>
  /\ lastFault = Null
  /\ searchExit = "none"
  /\ searchResult = Null
  /\ priorCounted = FALSE
  /\ launches = 0
  /\ unclosed = 0
  /\ curClosed = FALSE
  /\ lastDelay = Null
  /\ slept = 0

(***************************************************************************)
(* checkAsinRank: the attempt loop.                                        *)
(***************************************************************************)
\* const validationError = validateInput(request);
\* if (validationError) return createErrorResponse(validationError)
ValidateInput ==
  /\ mode = "checkAsinRank"
  /\ pc = "validate"
  /\ LET validationError == validateInput(request) IN
     IF ~IsNull(validationError)
     THEN /\ response' = Some(createErrorResponse(Val(validationError)))
          /\ pc' = "done"
     ELSE /\ pc' = "loop"
          /\ UNCHANGED response
  /\ UNCHANGED <<boundaryVars, bulkVars>>
  /\ UNCHANGED <<parserVars, cfgVars, retryVars, scanVars, browserVars, deadlinePassed, attempt,
                 lastError, lastFault, priorCounted, launches, lastDelay, slept>>

LoopContinuesOneMore(att) == att <= maxRetries + 1

\* for (let attempt = 0; attempt <= retryConfig.maxRetries; attempt++)
LoopContinues(att) == att <= maxRetries

\* if (attempt < retryConfig.maxRetries) { ... await sleep(backoff) }
SleepsBeforeRetry(att) == att < maxRetries

\* const backoff = retryConfig.baseBackoffMs * Math.pow(2, attempt)
loopBackoff(att) == baseBackoffMs * Pow2(att)

CleanupSkipped(b, n, closed) == n

\* if (browser) { try { await browser.close() } catch {} browser = null }
\* gives the number of browsers on which close() was never called.
CleanupUnclosed(b, n, closed) == IF b /= "null" /\ ~closed THEN n - 1 ELSE n

\* The loop is left: return createErrorResponse(lastError).
ReturnLastError(code) ==
  /\ response' = Some(createErrorResponse(code))
  /\ pc' = "done"

\* attempt++ and the loop condition, after the catch block or the sleep.
NextIteration(code) ==
  /\ attempt' = attempt + 1
  /\ IF LoopContinues(attempt + 1)
     THEN pc' = "loop" /\ response' = response
     ELSE ReturnLastError(code)

\* The catch block of checkAsinRank on the thrown value f, entered with the
\* browser variable holding b and n browsers not yet closed; closed tells
\* whether close() was already called on b.  The locals of the executeSearch
\* call that threw are dead: they keep their last values until the next call
\* initialises its own.
Catch(f, b, n, closed) ==
  LET code == classifyError(f) IN
  /\ lastError' = code
  /\ lastFault' = Some(f)
  /\ searchExit' = "throw"
  /\ pagesSeen' = <<>>
  /\ UNCHANGED <<pageNum, cumulativeOrganicRank, cumulativeSponsoredRank, totalScanned>>
  /\ priorCounted' = (priorCounted \/ cumulativeOrganicRank + cumulativeSponsoredRank > 0
                                   \/ totalScanned > 0)
  /\ unclosed' = CleanupUnclosed(b, n, closed)
  /\ browser' = "null"
  /\ curClosed' = FALSE
  /\ IF ~isRetryableError(code)
     THEN /\ ReturnLastError(code)
          /\ UNCHANGED <<attempt, lastDelay, slept>>
     ELSE IF SleepsBeforeRetry(attempt)
          THEN /\ pc' = "backoff"
               /\ lastDelay' = Some([index |-> attempt, ms |-> loopBackoff(attempt)])
               /\ UNCHANGED <<attempt, response, slept>>
          ELSE /\ NextIteration(code)
               /\ UNCHANGED <<lastDelay, slept>>

StaleCounters ==
  [cumulativeOrganicRank |-> cumulativeOrganicRank,
   cumulativeSponsoredRank |-> cumulativeSponsoredRank,
   totalScanned |-> totalScanned]

\* let cumulativeOrganicRank = 0; let cumulativeSponsoredRank = 0; let totalScanned = 0
FreshCounters ==
  [cumulativeOrganicRank |-> 0, cumulativeSponsoredRank |-> 0, totalScanned |-> 0]

\* browser = await launchBrowser(), then executeSearch up to its page loop.
LaunchBrowser ==
  /\ mode = "checkAsinRank"
  /\ pc = "loop"
  /\ launches' = launches + 1
  /\ searchResult' = Null
  /\ UNCHANGED <<boundaryVars, bulkVars>>
  /\ UNCHANGED <<parserVars, cfgVars, retryVars, deadlinePassed>>
  /\ \/ \* launchBrowser throws
        \E f \in Faults : Catch(f, browser, unclosed, FALSE)
     \/ \* the page is opened but its preparation throws before the try block
        \E f \in Faults : Catch(f, "Browser", unclosed + 1, FALSE)
     \/ /\ browser' = "Browser"
        /\ unclosed' = unclosed + 1
        /\ curClosed' = FALSE
        /\ searchExit' = "none"
        /\ pageNum' = 1
        /\ cumulativeOrganicRank' = FreshCounters.cumulativeOrganicRank
        /\ cumulativeSponsoredRank' = FreshCounters.cumulativeSponsoredRank
        /\ totalScanned' = FreshCounters.totalScanned
        /\ pagesSeen' = <<>>
        /\ pc' = "scan"
        /\ UNCHANGED <<attempt, lastError, response, lastFault, priorCounted,
                       lastDelay, slept>>

\* await sleep(backoff) is over.
BackoffDone ==
  /\ mode = "checkAsinRank"
  /\ pc = "backoff"
  /\ slept' = slept + Val(lastDelay).ms
  /\ NextIteration(lastError)
  /\ UNCHANGED <<boundaryVars, bulkVars>>
  /\ UNCHANGED <<parserVars, cfgVars, retryVars, deadlinePassed, scanVars, browserVars, lastError,
                 lastFault, priorCounted, launches, lastDelay>>

(***************************************************************************)
(* executeSearch: the page loop of one attempt.                            *)
(***************************************************************************)
FoundDataNoOffset(pr, cumOrganic, cumSponsored, total) ==
  [organicRank |-> pr.organicRank,
   sponsoredRank |-> pr.sponsoredRank,
   pageFound |-> Some(pageNum),
   positionOnPage |-> pr.position,
   totalResultsScanned |-> total,
   scannedPages |-> pageNum]

FoundDataLastPage(pr, cumOrganic, cumSponsored, total) ==
  [organicRank |-> IF ~IsNull(pr.organicRank)
                   THEN Some(cumOrganic + Val(pr.organicRank)) ELSE Null,
   sponsoredRank |-> IF ~IsNull(pr.sponsoredRank)
                     THEN Some(cumSponsored + Val(pr.sponsoredRank)) ELSE Null,
   pageFound |-> Some(maxPages),
   positionOnPage |-> pr.position,
   totalResultsScanned |-> total,
   scannedPages |-> maxPages]

\* const result: RankResult = { ... } when parseResult.found
FoundData(pr, cumOrganic, cumSponsored, total) ==
  [organicRank |-> IF ~IsNull(pr.organicRank)
                   THEN Some(cumOrganic + Val(pr.organicRank)) ELSE Null,
   sponsoredRank |-> IF ~IsNull(pr.sponsoredRank)
                     THEN Some(cumSponsored + Val(pr.sponsoredRank)) ELSE Null,
   pageFound |-> Some(pageNum),
   positionOnPage |-> pr.position,
   totalResultsScanned |-> total,
   scannedPages |-> pageNum]

NotFoundDataPagesVisited(total) ==
  [organicRank |-> Null, sponsoredRank |-> Null, pageFound |-> Null,
   positionOnPage |-> Null, totalResultsScanned |-> total,
   scannedPages |-> Len(pagesSeen)]

\* the data returned after the page loop: ASIN not found
NotFoundData(total) ==
  [organicRank |-> Null, sponsoredRank |-> Null, pageFound |-> Null,
   positionOnPage |-> Null, totalResultsScanned |-> total,
   scannedPages |-> maxPages]

SuccessResponse(d) == [success |-> TRUE, data |-> Some(d), error |-> Null]

\* The parse results a page can give.
PageResults ==
  LET htmls == HtmlRepresentatives
  IN { WithBoundaryValidated(calculateRanks(list, targetAsin), html) :
         list \in PageLists, html \in htmls }

\* A throw inside the try block of executeSearch: finally closes the page,
\* and a throw of page.close() replaces the one in flight.
ThrowInTry(f) ==
  /\ searchResult' = Null
  /\ \/ Catch(f, browser, unclosed, FALSE)
     \/ \E g \in Faults : Catch(g, browser, unclosed, FALSE)

\* executeSearch returns r, leaving its loop the way exit tells after parsing
\* pages and counting total results: finally closes the page, checkAsinRank
\* closes the browser and returns r; either close may throw into the catch
\* block.
Return(r, exit, pages, total) ==
  \/ /\ searchResult' = Null
     /\ \E g \in Faults : Catch(g, browser, unclosed, FALSE)
  \/ /\ searchResult' = Some(r)
     /\ \E g \in Faults : Catch(g, browser, unclosed - 1, TRUE)
  \/ /\ searchResult' = Some(r)
     /\ response' = Some(r)
     /\ pc' = "done"
     /\ unclosed' = unclosed - 1
     /\ curClosed' = TRUE
     /\ searchExit' = exit
     /\ pagesSeen' = pages
     /\ totalScanned' = total
     /\ UNCHANGED <<browser, attempt, lastError, lastFault, priorCounted, lastDelay,
                    slept, pageNum, cumulativeOrganicRank, cumulativeSponsoredRank>>

Scanning ==
  /\ mode = "checkAsinRank"
  /\ pc = "scan"
  /\ pageNum <= maxPages

\* page.goto, waitForResults or parseSearchResults throws.
PageFault ==
  /\ Scanning
  /\ \E f \in Faults : ThrowInTry(f)
  /\ UNCHANGED <<boundaryVars, bulkVars>>
  /\ UNCHANGED <<parserVars, cfgVars, retryVars, deadlinePassed, launches>>

\* if (await hasCaptcha(page)) throw new Error('CAPTCHA detected')
CaptchaDetected ==
  /\ Scanning
  /\ ThrowInTry(CaptchaError)
  /\ UNCHANGED <<boundaryVars, bulkVars>>
  /\ UNCHANGED <<parserVars, cfgVars, retryVars, deadlinePassed, launches>>

\* if (await hasNoResults(page)) { if (pageNum === 1) return ...; break }
PageNoResults ==
  /\ Scanning
  /\ IF pageNum = 1
     THEN Return(createErrorResponse("asin_not_found"), "noResultsFirst",
                 pagesSeen, totalScanned)
     ELSE Return(SuccessResponse(NotFoundData(totalScanned)), "noResultsLater",
                 pagesSeen, totalScanned)
  /\ UNCHANGED <<boundaryVars, bulkVars>>
  /\ UNCHANGED <<parserVars, cfgVars, retryVars, deadlinePassed, launches>>

\* The page is parsed: the found branch, or the accumulation and the next page.
PageParsed ==
  /\ Scanning
  /\ UNCHANGED <<boundaryVars, bulkVars>>
  /\ UNCHANGED <<parserVars, cfgVars, retryVars, deadlinePassed, launches>>
  /\ \E parseResult \in PageResults :
       LET total == totalScanned + parseResult.totalResults
           pages == Append(pagesSeen, parseResult)
       IN IF parseResult.found
          THEN Return(SuccessResponse(FoundData(parseResult, cumulativeOrganicRank,
                                                cumulativeSponsoredRank, total)),
                      "found", pages, total)
          ELSE IF pageNum < maxPages
          THEN /\ totalScanned' = total
               /\ pagesSeen' = pages
               /\ cumulativeOrganicRank' =
                    cumulativeOrganicRank + parseResult.totalOrganicCount
               /\ cumulativeSponsoredRank' =
                    cumulativeSponsoredRank + parseResult.totalSponsoredCount
               /\ pageNum' = pageNum + 1
               /\ UNCHANGED <<pc, attempt, browserVars, lastError, response, lastFault,
                              searchExit, searchResult, priorCounted, lastDelay,
                              slept>>
          ELSE Return(SuccessResponse(NotFoundData(total)), "exhausted", pages, total)

\* The caller's wall-clock limit elapses while the session runs.
DeadlinePasses ==
  /\ mode = "checkAsinRank"
  /\ pc /= "done"
  /\ ~deadlinePassed
  /\ deadlinePassed' = TRUE
  /\ UNCHANGED <<boundaryVars, bulkVars>>
  /\ UNCHANGED <<parserVars, cfgVars, retryVars, scanVars, browserVars, pc, attempt, lastError,
                 response, lastFault, priorCounted, launches, lastDelay, slept>>

(***************************************************************************)
(* retryHandler: calculateBackoff, updateRetryState, executeWithRetry.     *)
(***************************************************************************)
\* jitter is the value of Math.floor(Math.random() * 500)
calculateBackoff(att, jitter) ==
  LET exponentialDelay == baseBackoffMs * Pow2(att)
      totalDelay == exponentialDelay + jitter
  IN Min(totalDelay, maxBackoffMs)

updateRetryState(st, errorCode, jitter) ==
  LET newAttempt == st.attempt + 1
      shouldRetry == isRetryableError(errorCode) /\ newAttempt <= maxRetries
      backoffDelay == IF shouldRetry THEN calculateBackoff(newAttempt - 1, jitter) ELSE 0
  IN [attempt |-> newAttempt,
      lastError |-> Some(errorCode),
      totalDelayMs |-> st.totalDelayMs + backoffDelay,
      shouldRetry |-> shouldRetry]

\* One turn of the while loop: fn is awaited and returns.
FnReturns ==
  /\ mode = "executeWithRetry"
  /\ pc = "fn"
  /\ launches' = launches + 1
  /\ retryReturn' = Some([kind |-> "result", retryState |-> state])
  /\ pc' = "done"
  /\ UNCHANGED <<boundaryVars, bulkVars>>
  /\ UNCHANGED <<parserVars, cfgVars, scanVars, browserVars, state, attempt, lastError, response,
                 deadlinePassed, lastFault, priorCounted, lastDelay, slept>>

\* One turn of the while loop: fn is awaited and throws.
FnThrows ==
  /\ mode = "executeWithRetry"
  /\ pc = "fn"
  /\ launches' = launches + 1
  /\ \E f \in Faults, j1 \in JitterChoices, j2 \in JitterChoices :
       LET errorCode == classifyError(f)
           st == updateRetryState(state, errorCode, j1)
       IN /\ state' = st
          /\ lastFault' = Some(f)
          /\ IF ~st.shouldRetry
             THEN /\ retryReturn' =
                       Some([kind |-> "error", error |-> errorCode, retryState |-> st])
                  /\ pc' = "done"
                  /\ UNCHANGED lastDelay
             ELSE /\ lastDelay' = Some([index |-> st.attempt - 1,
                                        ms |-> calculateBackoff(st.attempt - 1, j2)])
                  /\ pc' = "sleep"
                  /\ UNCHANGED retryReturn
  /\ UNCHANGED <<boundaryVars, bulkVars>>
  /\ UNCHANGED <<parserVars, cfgVars, scanVars, browserVars, attempt, lastError, response,
                 deadlinePassed, priorCounted, slept>>

\* await sleep(backoffDelay) is over.
SleepDone ==
  /\ mode = "executeWithRetry"
  /\ pc = "sleep"
  /\ slept' = slept + Val(lastDelay).ms
  /\ pc' = "fn"
  /\ UNCHANGED <<boundaryVars, bulkVars>>
  /\ UNCHANGED <<parserVars, cfgVars, scanVars, browserVars, retryVars, attempt, lastError, response,
                 deadlinePassed, lastFault, priorCounted, launches, lastDelay>>

Next ==
  \/ ValidateInput
  \/ LaunchBrowser
  \/ PageFault
  \/ CaptchaDetected
  \/ PageNoResults
  \/ PageParsed
  \/ BackoffDone
  \/ FnReturns
  \/ FnThrows
  \/ SleepDone

Spec == Init /\ [][Next]_vars

\* The session under a caller that imposes a wall-clock limit.
NextWithDeadline ==
  \/ Next
  \/ DeadlinePasses

SpecDeadline == Init /\ [][NextWithDeadline]_vars

(***************************************************************************)
(* parseSearchResults: two extraction passes over the elements of the      *)
(* page, the merge of the two passes and the rank calculation.             *)
(***************************************************************************)
sessionVars == <<cfgVars, retryVars, scanVars, browserVars, pc, attempt, lastError,
                 response, deadlinePassed, lastFault, priorCounted, launches,
                 lastDelay, slept>>

\* data-asin values: the target, another product, a value of the wrong
\* length and a missing attribute.
ElementAsins == Asins \cup {"B0SHORT", ""}

Elements ==
  { Element(a, v[1], v[2], v[3], v[4], d) :
      a \in ElementAsins, v \in BOOLEAN \X BOOLEAN \X BOOLEAN \X BOOLEAN,
      d \in BOOLEAN }

\* The page is loaded and parseSearchResults is called on it.
InitParser ==
  /\ BoundaryIdle
  /\ BulkIdle
  /\ mode = "parseSearchResults"
  /\ request = ValidRequest
  /\ maxPages = 1
  /\ maxRetries = 0
  /\ baseBackoffMs = 1000
  /\ pc = "scan"
  /\ attempt = 0
  /\ browser = "Browser"
  /\ lastError = "unknown_error"
  /\ response = Null
  /\ pageNum = 1
  /\ cumulativeOrganicRank = 0
  /\ cumulativeSponsoredRank = 0
  /\ totalScanned = 0
  /\ state = createRetryState
  /\ retryReturn = Null
  /\ deadlinePassed = FALSE
  /\ pagesSeen = <<>>
  /\ lastFault = Null
  /\ searchExit = "none"
  /\ searchResult = Null
  /\ priorCounted = FALSE
  /\ launches = 1
  /\ unclosed = 1
  /\ curClosed = FALSE
  /\ lastDelay = Null
  /\ slept = 0
  /\ parsePc = "phase1"
  /\ elementIndex = 0
  /\ results = <<>>
  /\ additionalResults = <<>>
  /\ extracted = Null
  /\ merged = <<>>
  /\ parseReturn = Null

\* One turn of the loop of extractResults: the element at index elementIndex
\* is extracted at position elementIndex + 1 and pushed unless it is skipped.
ExtractSingleResult ==
  /\ parsePc \in {"phase1", "phase2"}
  /\ elementIndex < MaxLen
  /\ \E el \in Elements :
       LET r == extractSingleResult(el, elementIndex + 1) IN
       /\ extracted' = r
       /\ IF IsNull(r)
          THEN UNCHANGED <<results, additionalResults>>
          ELSE IF parsePc = "phase1"
          THEN /\ results' = Append(results, ListEntry(Val(r)))
               /\ UNCHANGED additionalResults
          ELSE /\ additionalResults' = Append(additionalResults, ListEntry(Val(r)))
               /\ UNCHANGED results
  /\ elementIndex' = elementIndex + 1
  /\ UNCHANGED <<boundaryVars, bulkVars>>
  /\ UNCHANGED <<sessionVars, parsePc, merged, parseReturn>>

\* extractResults returns: the elements of the pass are exhausted.
ExtractResultsReturns ==
  /\ parsePc \in {"phase1", "phase2"}
  /\ parsePc' = IF parsePc = "phase1" THEN "phase2" ELSE "merge"
  /\ elementIndex' = 0
  /\ extracted' = Null
  /\ UNCHANGED <<boundaryVars, bulkVars>>
  /\ UNCHANGED <<sessionVars, results, additionalResults, merged, parseReturn>>

\* results = mergeResults(results, additionalResults);
\* return calculateRanks(results, targetAsin)
MergeAndRank ==
  /\ parsePc = "merge"
  /\ merged' = mergeResults(results, additionalResults)
  /\ \E html \in HtmlRepresentatives :
       parseReturn' = Some(WithBoundaryValidated(calculateRanks(merged', targetAsin), html))
  /\ parsePc' = "done"
  /\ UNCHANGED <<boundaryVars, bulkVars>>
  /\ UNCHANGED <<sessionVars, elementIndex, results, additionalResults, extracted>>

NextParser ==
  \/ ExtractSingleResult
  \/ ExtractResultsReturns
  \/ MergeAndRank

SpecParser == InitParser /\ [][NextParser]_vars

(***************************************************************************)
(* The boundary validator on one found record, as calculateRanks calls it. *)
(***************************************************************************)
MaxPosition == 21
MaxTotalResults == 20

\* No session is running: checkAsinRank has not been called.
SessionIdle(m) ==
  /\ mode = m
  /\ request = ValidRequest
  /\ maxPages = 1
  /\ maxRetries = 0
  /\ baseBackoffMs = 1000
  /\ pc = "done"
  /\ attempt = 0
  /\ browser = "null"
  /\ lastError = "unknown_error"
  /\ response = Null
  /\ pageNum = 0
  /\ cumulativeOrganicRank = 0
  /\ cumulativeSponsoredRank = 0
  /\ totalScanned = 0
  /\ state = createRetryState
  /\ retryReturn = Null
  /\ deadlinePassed = FALSE
  /\ pagesSeen = <<>>
  /\ lastFault = Null
  /\ searchExit = "none"
  /\ searchResult = Null
  /\ priorCounted = FALSE
  /\ launches = 0
  /\ unclosed = 0
  /\ curClosed = FALSE
  /\ lastDelay = Null
  /\ slept = 0

InitBoundary ==
  /\ SessionIdle("boundaryValidator")
  /\ ParserIdle
  /\ BulkIdle
  /\ zonePosition \in 1..MaxPosition
  /\ zoneTotalResults \in 0..MaxTotalResults
  /\ elementHtml \in Htmls
  /\ zoneResult = Null

\* isInBoundaryZone(firstFoundPosition, results.length) and the validation
\* of the found record's markup.
ValidateBoundary ==
  /\ mode = "boundaryValidator"
  /\ zoneResult = Null
  /\ zoneResult' =
       Some([inZone |-> isInBoundaryZone(zonePosition, zoneTotalResults),
             boundaryValidated |->
               boundaryValidation(zonePosition, zoneTotalResults, elementHtml)])
  /\ UNCHANGED <<sessionVars, parserVars, bulkVars, zonePosition, zoneTotalResults,
                 elementHtml>>

NextBoundary == ValidateBoundary

SpecBoundary == InitBoundary /\ [][NextBoundary]_vars

(***************************************************************************)
(* The dashboard's bulk queue: handleBulkUpload runs once per uploaded     *)
(* batch and is suspended at each await; handleStopProcessing is the Stop  *)
(* button.  jobs[b][i] is the status of job i of batch b, handlers[b] the  *)
(* position of the handleBulkUpload call of batch b, stopAfter[b] tells    *)
(* whether Stop was clicked after batch b was submitted.                   *)
(***************************************************************************)
MaxBatches == 2
MaxJobs == 2

\* const maxRetries = 2
BulkMaxRetries == 2

JobStatus == {"queued", "processing", "retrying", "completed", "failed"}

\* What the awaited fetch and response.json() give: a success response, an
\* error response with a code outside or inside retryableErrors, or a throw.
FetchOutcomes == {"success", "nonRetryable", "retryable", "throw"}

InitBulk ==
  /\ SessionIdle("handleBulkUpload")
  /\ ParserIdle
  /\ BoundaryIdle
  /\ processingRef = FALSE
  /\ isProcessing = FALSE
  /\ jobs = <<>>
  /\ handlers = <<>>
  /\ stopAfter = <<>>

Handler(pcAt, i, retryCount) == [pc |-> pcAt, i |-> i, retryCount |-> retryCount]

SetStatus(js, b, i, status) == [js EXCEPT ![b][i] = status]

\* The for loop reaches its test with index i in the call of batch b, the
\* job list being js: it breaks when processingRef.current is false or the
\* batch is exhausted, and the call ends by clearing the flags; otherwise job
\* i becomes 'processing' and its first request is sent.
LoopTest(b, i, js, ref) ==
  IF i <= Len(js[b]) /\ ref
  THEN /\ jobs' = SetStatus(js, b, i, "processing")
       /\ handlers' = [handlers EXCEPT ![b] = Handler("fetch", i, 0)]
       /\ UNCHANGED <<processingRef, isProcessing>>
  ELSE /\ jobs' = js
       /\ handlers' = [handlers EXCEPT ![b] = Handler("done", i, 0)]
       /\ processingRef' = FALSE
       /\ isProcessing' = FALSE

\* Job i of batch b has left the retry loop, the job list being js: the
\* 1000 ms delay follows unless it was the last job of the batch.
AfterRetryLoop(b, i, js) ==
  IF i < Len(js[b])
  THEN /\ jobs' = js
       /\ handlers' = [handlers EXCEPT ![b] = Handler("delay", i, 0)]
       /\ UNCHANGED <<processingRef, isProcessing>>
  ELSE LoopTest(b, i + 1, js, processingRef)

\* The upload control is enabled (isProcessing is false) and a file with n
\* rows is submitted: handleBulkUpload runs up to its first await.
HandleBulkUpload ==
  /\ mode = "handleBulkUpload"
  /\ ~isProcessing
  /\ ~processingRef
  /\ Len(handlers) < MaxBatches
  /\ \E n \in 1..MaxJobs :
       LET b == Len(handlers) + 1
           newJobs == [i \in 1..n |-> "queued"]
       IN /\ jobs' = SetStatus(Append(jobs, newJobs), b, 1, "processing")
          /\ handlers' = Append(handlers, Handler("fetch", 1, 0))
          /\ stopAfter' = Append(stopAfter, FALSE)
  /\ processingRef' = TRUE
  /\ isProcessing' = TRUE
  /\ UNCHANGED <<sessionVars, parserVars, boundaryVars>>

\* The Stop button, shown while isProcessing is true.
HandleStopProcessing ==
  /\ mode = "handleBulkUpload"
  /\ isProcessing
  /\ processingRef' = FALSE
  /\ isProcessing' = FALSE
  /\ stopAfter' = [b \in 1..Len(stopAfter) |-> TRUE]
  /\ UNCHANGED <<sessionVars, parserVars, boundaryVars, jobs, handlers>>

\* The request of batch b completes and the call runs to its next await.
FetchCompletes ==
  /\ mode = "handleBulkUpload"
  /\ \E b \in 1..Len(handlers), outcome \in FetchOutcomes :
       LET h == handlers[b] IN
       /\ h.pc = "fetch"
       /\ IF outcome = "success"
          THEN AfterRetryLoop(b, h.i, SetStatus(jobs, b, h.i, "completed"))
          ELSE IF outcome = "nonRetryable"
          THEN AfterRetryLoop(b, h.i, SetStatus(jobs, b, h.i, "failed"))
          ELSE IF h.retryCount + 1 <= BulkMaxRetries
          THEN /\ jobs' = SetStatus(jobs, b, h.i, "retrying")
               /\ handlers' = [handlers EXCEPT ![b] = Handler("backoff", h.i, h.retryCount + 1)]
               /\ UNCHANGED <<processingRef, isProcessing>>
          ELSE AfterRetryLoop(b, h.i, SetStatus(jobs, b, h.i, "failed"))
  /\ UNCHANGED <<sessionVars, parserVars, boundaryVars, stopAfter>>

\* The wait before a retry is over: the request is sent again.
RetryWaitOver ==
  /\ mode = "handleBulkUpload"
  /\ \E b \in 1..Len(handlers) :
       /\ handlers[b].pc = "backoff"
       /\ handlers' = [handlers EXCEPT ![b].pc = "fetch"]
  /\ UNCHANGED <<sessionVars, parserVars, boundaryVars, processingRef, isProcessing, jobs,
                 stopAfter>>

\* The delay between two items is over: i++ and the loop test.
ItemDelayOver ==
  /\ mode = "handleBulkUpload"
  /\ \E b \in 1..Len(handlers) :
       /\ handlers[b].pc = "delay"
       /\ LoopTest(b, handlers[b].i + 1, jobs, processingRef)
  /\ UNCHANGED <<sessionVars, parserVars, boundaryVars, stopAfter>>

NextBulk ==
  \/ HandleBulkUpload
  \/ HandleStopProcessing
  \/ FetchCompletes
  \/ RetryWaitOver
  \/ ItemDelayOver

SpecBulk == InitBulk /\ [][NextBulk]_vars

(***************************************************************************)
(* Properties.                                                             *)
(***************************************************************************)
faulted == searchExit = "throw"

Returned == mode = "checkAsinRank" /\ pc = "done" /\ ~IsNull(response)
Succeeded == Returned /\ Val(response).success
Data == Val(Val(response).data)

RECURSIVE SumOrganic(_, _)
SumOrganic(pages, k) ==
  IF k <= 0 THEN 0 ELSE SumOrganic(pages, k - 1) + pages[k].totalOrganicCount

RECURSIVE SumSponsored(_, _)
SumSponsored(pages, k) ==
  IF k <= 0 THEN 0 ELSE SumSponsored(pages, k - 1) + pages[k].totalSponsoredCount

RECURSIVE SumResults(_, _)
SumResults(pages, k) ==
  IF k <= 0 THEN 0 ELSE SumResults(pages, k - 1) + pages[k].totalResults

\* C1: when the target is found on page k, the returned organicRank (when
\* non-null) is the sum of totalOrganicCount over pages 1..k-1 plus the local
\* organic rank of page k, and likewise the returned sponsoredRank with the
\* sponsored counts; a rank is null exactly when the local rank is null.
C1_CumulativeRanks ==
  (Succeeded /\ ~IsNull(Data.pageFound)) =>
    LET k == Val(Data.pageFound)
        local == pagesSeen[k]
    IN /\ k = Len(pagesSeen)
       /\ local.found
       /\ IsNull(Data.organicRank) = IsNull(local.organicRank)
       /\ IsNull(Data.sponsoredRank) = IsNull(local.sponsoredRank)
       /\ ~IsNull(Data.organicRank) =>
            Val(Data.organicRank) = SumOrganic(pagesSeen, k - 1) + Val(local.organicRank)
       /\ ~IsNull(Data.sponsoredRank) =>
            Val(Data.sponsoredRank) =
              SumSponsored(pagesSeen, k - 1) + Val(local.sponsoredRank)

\* C1 witness: found on page 2 in both categories, above organic and
\* sponsored results counted on page 1.
C1_Witness ==
  /\ Succeeded
  /\ Data.pageFound = Some(2)
  /\ ~IsNull(Data.organicRank)
  /\ ~IsNull(Data.sponsoredRank)
  /\ SumOrganic(pagesSeen, 1) > 0
  /\ SumSponsored(pagesSeen, 1) > 0

\* The data one attempt gives on the pages it parsed, from zeroed counters.
FreshAttemptData(pages) ==
  LET n == Len(pages) IN
  IF n > 0 /\ pages[n].found
  THEN [organicRank |-> IF IsNull(pages[n].organicRank) THEN Null
                        ELSE Some(SumOrganic(pages, n - 1) + Val(pages[n].organicRank)),
        sponsoredRank |-> IF IsNull(pages[n].sponsoredRank) THEN Null
                          ELSE Some(SumSponsored(pages, n - 1) + Val(pages[n].sponsoredRank)),
        pageFound |-> Some(n),
        positionOnPage |-> pages[n].position,
        totalResultsScanned |-> SumResults(pages, n),
        scannedPages |-> n]
  ELSE [organicRank |-> Null, sponsoredRank |-> Null, pageFound |-> Null,
        positionOnPage |-> Null, totalResultsScanned |-> SumResults(pages, n),
        scannedPages |-> maxPages]

\* C2: the counters start at zero in every attempt: whatever earlier attempts
\* counted before failing, the result of the attempt that succeeds is the one
\* a single fresh attempt gives on the pages parsed in that attempt.
C2_CountersResetPerAttempt ==
  Succeeded => Data = FreshAttemptData(pagesSeen)

\* C2 witness: success on a later attempt, after a failed attempt that had
\* already counted results.
C2_Witness ==
  /\ Succeeded
  /\ launches >= 2
  /\ priorCounted
  /\ Data.totalResultsScanned > 0
  /\ ~IsNull(Data.organicRank)

C3_RetryableSet == {"captcha_detected", "timeout", "parsing_failed"}

\* C3: a failed attempt is followed by a backoff wait or by another attempt
\* (another browser launch) only if its classified error is captcha_detected,
\* timeout or parsing_failed; after any other fault the session is over.
C3_RetryOnlyRetryable ==
  mode = "checkAsinRank" =>
    /\ (pc = "backoff" \/ (pc \in {"loop", "scan"} /\ launches > 0 /\ attempt > 0)) =>
         /\ ~IsNull(lastFault)
         /\ classifyError(Val(lastFault)) \in C3_RetryableSet
    /\ (faulted /\ classifyError(Val(lastFault)) \notin C3_RetryableSet) =>
         /\ pc = "done"
         /\ ~Val(response).success
         /\ IsNull(lastDelay) \/ Val(lastDelay).index < attempt

\* C3 witness: the first attempt fails to launch the browser, retries remain,
\* and the session is over after that one launch without any wait.
C3_Witness ==
  /\ Returned
  /\ faulted
  /\ classifyError(Val(lastFault)) = "browser_launch_failed"
  /\ launches = 1
  /\ maxRetries >= 1
  /\ IsNull(lastDelay)

\* C4: both retry controllers run the attempt at most maxRetries + 1 times,
\* and when the last permitted attempt fails the outcome is a failure with
\* the error code classified from that attempt's fault.
C4_BoundedAttempts ==
  /\ launches <= maxRetries + 1
  /\ (mode = "checkAsinRank" /\ pc = "done" /\ faulted /\ launches = maxRetries + 1) =>
       /\ ~Val(response).success
       /\ Val(Val(response).error).code = classifyError(Val(lastFault))
  /\ (mode = "executeWithRetry" /\ pc = "done" /\ launches = maxRetries + 1
        /\ Val(retryReturn).kind = "error") =>
       /\ Val(retryReturn).error = classifyError(Val(lastFault))
       /\ Val(retryReturn).retryState.lastError = Some(classifyError(Val(lastFault)))

\* C4 witness: every permitted attempt was used and the last one failed with
\* a retryable fault.
C4_Witness ==
  /\ Returned
  /\ faulted
  /\ maxRetries = 2
  /\ launches = 3
  /\ classifyError(Val(lastFault)) = "timeout"

\* C5: close() is called on every launched browser before the next launch,
\* before a backoff wait and before checkAsinRank returns, so at most one
\* browser is launched and not yet closed.
C5_BrowserClosed ==
  mode = "checkAsinRank" =>
    /\ unclosed <= 1
    /\ pc \in {"loop", "backoff", "done"} => unclosed = 0
    /\ pc = "scan" => unclosed = 1 /\ browser = "Browser"

\* C5 witness: a second browser is open after the first attempt navigated,
\* threw and had its browser closed.
C5_Witness ==
  /\ mode = "checkAsinRank"
  /\ pc = "scan"
  /\ launches = 2
  /\ unclosed = 1
  /\ ~IsNull(lastFault)

NullRanks(d) ==
  /\ IsNull(d.organicRank)
  /\ IsNull(d.sponsoredRank)
  /\ IsNull(d.pageFound)
  /\ IsNull(d.positionOnPage)

\* C6: when the no-results indicator is seen on page 1 and nothing throws,
\* the caller receives success=true with null ranks, never an error response.
C6_NoResultsIsSuccess ==
  (Returned /\ ~faulted /\ searchExit = "noResultsFirst") =>
    /\ Val(response).success
    /\ IsNull(Val(response).error)
    /\ ~IsNull(Val(response).data)
    /\ NullRanks(Data)

C8_DeadlineChecked ==
  [][deadlinePassed =>
       ~(LaunchBrowser \/ PageFault \/ CaptchaDetected \/ PageNoResults \/ PageParsed)]_vars

\* C9: every delay waited between attempt i and attempt i+1 is
\* min(baseBackoffMs * 2^i + jitter, maxBackoffMs) for a jitter in 0..499,
\* so it never exceeds maxBackoffMs.
C9_BackoffCapped ==
  ~IsNull(lastDelay) =>
    LET d == Val(lastDelay) IN
    /\ d.ms <= maxBackoffMs
    /\ \E jitter \in 0..(JitterRange - 1) :
         d.ms = Min(baseBackoffMs * Pow2(d.index) + jitter, maxBackoffMs)

\* C10: every response of checkAsinRank is either success=true with data and
\* no error, or success=false with an error of one ErrorCode and a message
\* and no data.
C10_ResponseShape ==
  Returned =>
    LET r == Val(response) IN
    \/ /\ r.success
       /\ ~IsNull(r.data)
       /\ IsNull(r.error)
    \/ /\ ~r.success
       /\ IsNull(r.data)
       /\ ~IsNull(r.error)
       /\ Val(r.error).code \in ErrorCode
       /\ Val(r.error).message = getErrorMessage(Val(r.error).code)

\* C10 witness: an error response returned from inside the page loop.
C10_Witness ==
  /\ Returned
  /\ ~faulted
  /\ searchExit = "noResultsFirst"
  /\ ~Val(response).success

\* The request fails validation: the identifier is missing or is not ten
\* characters of A-Z and 0-9 once upper-cased, or the keyword is missing, is
\* shorter than 2 or longer than 200 characters, or holds an injection pattern.
C11_FailsValidation ==
  \/ request.asin = ""
  \/ ~request.asinMatches
  \/ Len(request.keyword) < 2
  \/ Len(request.keyword) > 200
  \/ request.keywordDangerous

\* C11: a request that fails validation makes checkAsinRank return
\* success=false with code invalid_input as its first step: no browser is
\* launched, no attempt is started, no backoff is waited and nothing is retried.
C11_InvalidInputImmediate ==
  (mode = "checkAsinRank" /\ C11_FailsValidation) =>
    /\ pc \in {"validate", "done"}
    /\ launches = 0
    /\ attempt = 0
    /\ browser = "null"
    /\ IsNull(lastDelay)
    /\ slept = 0
    /\ pc = "done" =>
         /\ ~IsNull(response)
         /\ ~Val(response).success
         /\ IsNull(Val(response).data)
         /\ Val(Val(response).error).code = "invalid_input"

\* C11 witness: a well-formed identifier with a keyword of 201 characters was
\* answered with the error response.
C11_Witness ==
  /\ Returned
  /\ request.asinMatches
  /\ Len(request.keyword) = 201
  /\ ~Val(response).success
  /\ launches = 0

\* C12: once checkAsinRank has accepted the request, the keyword handed to
\* executeSearch, which is the trimmed keyword, has a length between 2 and
\* 200 inclusive.
C12_TrimmedKeywordLength ==
  (mode = "checkAsinRank" /\ pc /= "validate" /\ launches > 0) =>
    /\ Len(normalizedKeyword) >= 2
    /\ Len(normalizedKeyword) <= 200

\* C13: every record that extraction hands to the merger has isSponsored
\* true exactly when the signalCount of its own signal vector is at least 2.
C13_SponsoredIffTwoSignals ==
  ~IsNull(extracted) =>
    (Val(extracted).isSponsored <=> Val(extracted).sponsoredSignals.signalCount >= 2)

ParseDone == mode = "parseSearchResults" /\ parsePc = "done"

SameAsinAndClass(a, b) == a.asin = b.asin /\ a.isSponsored = b.isSponsored

\* The places of the merged list that hold entries appended from the second pass.
AppendedPlaces == (Len(results) + 1)..Len(merged)

\* C14: the merged list of a page holds no two entries with the same
\* identifier and the same isSponsored value.
C14_NoDuplicateKeys ==
  ParseDone =>
    \A i \in DOMAIN merged : \A j \in DOMAIN merged :
      i /= j => ~SameAsinAndClass(merged[i], merged[j])

C16_IsNew(j) ==
  /\ \A i \in DOMAIN results : ~SameAsinAndClass(results[i], additionalResults[j])
  /\ \A k \in 1..(j - 1) :
       ~SameAsinAndClass(additionalResults[k], additionalResults[j])

RECURSIVE C16_NewEntries(_)
C16_NewEntries(j) ==
  IF j = 0 THEN <<>>
  ELSE IF C16_IsNew(j) THEN Append(C16_NewEntries(j - 1), additionalResults[j])
  ELSE C16_NewEntries(j - 1)

C17_MergeIdempotent ==
  (ParseDone /\ additionalResults = results) => merged = results

\* C17 witness: two passes that extracted the same two entries.
C17_Witness ==
  /\ ParseDone
  /\ additionalResults = results
  /\ Len(results) = 2
  /\ merged = results

\* Places of the merged list: those holding the target, by category, and the
\* number of entries of one category up to a place.
OrganicMatches == { i \in DOMAIN merged : merged[i].asin = targetAsin /\ ~merged[i].isSponsored }
SponsoredMatches == { i \in DOMAIN merged : merged[i].asin = targetAsin /\ merged[i].isSponsored }
Earliest(S) == CHOOSE i \in S : \A k \in S : i <= k
CountUpTo(i, sponsored) == Cardinality({ k \in 1..i : merged[k].isSponsored = sponsored })

\* C18: organicRank is non-null exactly when an organic record has the
\* target's identifier, and is then the number of organic records up to and
\* including the first such record; likewise sponsoredRank with the sponsored
\* records; position is the original position of the earliest record with the
\* target's identifier in list order, whichever its category.
C18_RanksAtFirstMatch ==
  ParseDone =>
    LET r == Val(parseReturn) IN
    /\ IsNull(r.organicRank) <=> OrganicMatches = {}
    /\ OrganicMatches /= {} =>
         Val(r.organicRank) = CountUpTo(Earliest(OrganicMatches), FALSE)
    /\ IsNull(r.sponsoredRank) <=> SponsoredMatches = {}
    /\ SponsoredMatches /= {} =>
         Val(r.sponsoredRank) = CountUpTo(Earliest(SponsoredMatches), TRUE)
    /\ (OrganicMatches \cup SponsoredMatches) /= {} =>
         r.position =
           Some(merged[Earliest(OrganicMatches \cup SponsoredMatches)].position)

\* C18 witness: the target occurs twice as organic in the first pass and once
\* as sponsored in the second; the ranks are those of the first record of
\* each category and the position that of the earliest record.
C18_Witness ==
  /\ ParseDone
  /\ Cardinality(OrganicMatches) = 2
  /\ SponsoredMatches /= {}
  /\ Val(parseReturn).organicRank = Some(1)
  /\ Val(parseReturn).sponsoredRank = Some(1)
  /\ Val(parseReturn).position = Some(merged[1].position)

\* C19: totalOrganicCount and totalSponsoredCount count the organic and the
\* sponsored records of the whole merged list and add up to totalResults,
\* wherever the target occurs, and a latched rank lies between 1 and the
\* total of its category.
C19_TotalsCoverWholeList ==
  ParseDone =>
    LET r == Val(parseReturn) IN
    /\ r.totalOrganicCount = CountUpTo(Len(merged), FALSE)
    /\ r.totalSponsoredCount = CountUpTo(Len(merged), TRUE)
    /\ r.totalResults = Len(merged)
    /\ r.totalOrganicCount + r.totalSponsoredCount = r.totalResults
    /\ ~IsNull(r.organicRank) =>
         (1 <= Val(r.organicRank) /\ Val(r.organicRank) <= r.totalOrganicCount)
    /\ ~IsNull(r.sponsoredRank) =>
         (1 <= Val(r.sponsoredRank) /\ Val(r.sponsoredRank) <= r.totalSponsoredCount)

\* C19 witness: the target is the first record and records of both
\* categories follow it.
C19_Witness ==
  /\ ParseDone
  /\ Len(merged) >= 3
  /\ merged[1].asin = targetAsin
  /\ Val(parseReturn).found
  /\ Val(parseReturn).totalOrganicCount >= 2
  /\ Val(parseReturn).totalSponsoredCount >= 1
  /\ Val(parseReturn).organicRank = Some(1)

\* C20: a page result with found=false has organicRank, sponsoredRank and
\* position all null; one with found=true has a non-null position and at
\* least one non-null rank.
C20_FoundConsistent ==
  ParseDone =>
    LET r == Val(parseReturn) IN
    /\ ~r.found => (IsNull(r.organicRank) /\ IsNull(r.sponsoredRank) /\ IsNull(r.position))
    /\ r.found => (~IsNull(r.position)
                   /\ (~IsNull(r.organicRank) \/ ~IsNull(r.sponsoredRank)))

\* C20 witness: the target is on the page as a sponsored record only.
C20_Witness ==
  /\ ParseDone
  /\ OrganicMatches = {}
  /\ SponsoredMatches /= {}
  /\ Val(parseReturn).found
  /\ IsNull(Val(parseReturn).organicRank)

\* C21: isInBoundaryZone(position, totalResults) is true exactly when
\* position <= 3 or position > totalResults - 3, for every position >= 1 and
\* every totalResults >= 0.
C21_BoundaryZone ==
  ~IsNull(zoneResult) =>
    (Val(zoneResult).inZone <=>
       (zonePosition <= 3 \/ zonePosition > zoneTotalResults - 3))

\* The validated record's markup passes the three quick tests.
QuickTestsPass ==
  elementHtml.includesAsin /\ elementHtml.hasLink /\ elementHtml.hasContentWord

\* The three checks of the full validation that do not look at the length.
OtherChecksPass ==
  elementHtml.asinEmbedded /\ elementHtml.structural /\ elementHtml.content

\* C22: a target found at a boundary-zone position whose markup is shorter
\* than 500 characters has boundaryValidated=false exactly when the quick
\* validation fails and one of the identifier, structure and content checks
\* of the full validation fails too.
C22_ShortMarkup ==
  (~IsNull(zoneResult) /\ Val(zoneResult).inZone /\ elementHtml.short) =>
    (Val(zoneResult).boundaryValidated <=> (QuickTestsPass \/ OtherChecksPass))

C22_Witness ==
  /\ ~IsNull(zoneResult)
  /\ Val(zoneResult).inZone
  /\ zonePosition = 2
  /\ elementHtml.short
  /\ ~elementHtml.injection
  /\ ~QuickTestsPass
  /\ ~OtherChecksPass
  /\ elementHtml.asinEmbedded /\ elementHtml.structural
  /\ ~Val(zoneResult).boundaryValidated

\* C22 as stated: short markup in the boundary zone always gives
\* boundaryValidated=false.
C22_ShortMarkupNotValidated ==
  (~IsNull(zoneResult) /\ Val(zoneResult).inZone /\ elementHtml.short) =>
    ~Val(zoneResult).boundaryValidated

\* The parse result of the page the session found the target on.
FoundPage == pagesSeen[Len(pagesSeen)]

\* C23: a boundary-validation failure leaves the match as it is (the
\* returned position and the nullness of the ranks are those of the page's
\* parse result) and reaches the caller of the session as
\* boundaryValidated=false in the returned data.
C23_FailureSurfaced ==
  (Succeeded /\ searchExit = "found" /\ ~FoundPage.boundaryValidated) =>
    /\ Data.positionOnPage = FoundPage.position
    /\ IsNull(Data.organicRank) <=> IsNull(FoundPage.organicRank)
    /\ IsNull(Data.sponsoredRank) <=> IsNull(FoundPage.sponsoredRank)
    /\ "boundaryValidated" \in DOMAIN Data
    /\ ~Data.boundaryValidated

\* C25: executeSearch returns at the first page on which the target is
\* found: pageFound and scannedPages are the least page whose parse result
\* has the target, that page is the last one navigated, and while the loop
\* runs the cumulative counters hold the totals of every page parsed so far,
\* each counted once.
C25_StopsAtFirstMatch ==
  /\ (Succeeded /\ ~IsNull(Data.pageFound)) =>
       LET k == Val(Data.pageFound) IN
       /\ k = Len(pagesSeen)
       /\ k <= maxPages
       /\ pagesSeen[k].found
       /\ \A j \in 1..(k - 1) : ~pagesSeen[j].found
       /\ Data.scannedPages = k
  /\ (mode = "checkAsinRank" /\ pc = "scan") =>
       /\ pageNum = Len(pagesSeen) + 1
       /\ \A j \in 1..Len(pagesSeen) : ~pagesSeen[j].found
       /\ cumulativeOrganicRank = SumOrganic(pagesSeen, Len(pagesSeen))
       /\ cumulativeSponsoredRank = SumSponsored(pagesSeen, Len(pagesSeen))

\* C25 witness: the target is on page 1 of a two-page scan, which ends
\* there.
C25_Witness ==
  /\ Succeeded
  /\ maxPages = 2
  /\ Data.pageFound = Some(1)
  /\ Data.scannedPages = 1
  /\ Len(pagesSeen) = 1
  /\ pageNum = 1

\* C26: in every page result with found=true, 1 <= position <= totalResults,
\* also when extraction skipped elements or the match came from the second
\* pass.
C26_PositionWithinList ==
  (ParseDone /\ Val(parseReturn).found) =>
    /\ 1 <= Val(Val(parseReturn).position)
    /\ Val(Val(parseReturn).position) <= Val(parseReturn).totalResults

\* C27: in every success result of executeSearch, scannedPages is the number
\* of pages the attempt parsed and totalResultsScanned is the sum of
\* totalResults over those pages, also when a page after the first shows the
\* no-results indicator.
C27_ScannedPagesAreParsedPages ==
  Succeeded =>
    /\ Data.scannedPages = Len(pagesSeen)
    /\ Data.totalResultsScanned = SumResults(pagesSeen, Len(pagesSeen))

\* C28: once executeSearch has returned a response in an attempt,
\* checkAsinRank returns exactly that response and starts no further
\* attempt, also when closing the browser fails afterwards.
C28_SearchResultReturned ==
  (mode = "checkAsinRank" /\ ~IsNull(searchResult)) =>
    /\ pc = "done"
    /\ response = searchResult

\* C29: when executeWithRetry returns, retryState.totalDelayMs is the sum of
\* the delays actually slept and retryState.attempt is the number of fn
\* invocations that failed.
C29_RetryStateAccounting ==
  (mode = "executeWithRetry" /\ pc = "done" /\ ~IsNull(retryReturn)) =>
    LET retryState == Val(retryReturn).retryState
        failed == IF Val(retryReturn).kind = "result" THEN launches - 1 ELSE launches
    IN /\ retryState.totalDelayMs = slept
       /\ retryState.attempt = failed

\* The batches whose request to /api/check-rank is in flight.
InFlight == { b \in 1..Len(handlers) : handlers[b].pc = "fetch" }

Terminal(status) == status \in {"completed", "failed"}

\* C24: the bulk queue is strictly sequential: at most one bulk request is
\* in flight at any time, and while a request is in flight every other job
\* that was started is completed or failed.
C24_OneRequestInFlight ==
  mode = "handleBulkUpload" =>
    /\ Cardinality(InFlight) <= 1
    /\ \A b \in InFlight : \A c \in 1..Len(jobs) : \A i \in 1..Len(jobs[c]) :
         (c /= b \/ i /= handlers[b].i) =>
           (jobs[c][i] = "queued" \/ Terminal(jobs[c][i]))

\* C30: a batch after whose submission Stop was not clicked ends with every
\* job completed or failed, also when an earlier batch was stopped before.
C30_BatchRunsToTheEnd ==
  mode = "handleBulkUpload" =>
    \A b \in 1..Len(handlers) :
      (handlers[b].pc = "done" /\ ~stopAfter[b]) =>
        \A i \in 1..Len(jobs[b]) : Terminal(jobs[b][i])

====
